---- MODULE Spec2Model ----
(***************************************************************************)
(* HashMap<K, V> of hash-map/src/HashMap.h: an array of bucket heads, each *)
(* the head of a singly linked chain of heap-allocated nodes, with         *)
(* index = hash & (capacity - 1) and doubling of the array when the size   *)
(* exceeds the threshold.                                                  *)
(*                                                                         *)
(* The heap of nodes is explicit: a node lives at an address, `next` is an *)
(* address or NULL, `new` takes a free address and `delete` gives it back. *)
(* Every method is a function from the object's fields to the object's     *)
(* fields (a record, see Table), translated statement by statement; the    *)
(* actions apply one method to the current fields.                         *)
(***************************************************************************)
EXTENDS Integers, Sequences, FiniteSets, TLC

(***************************************************************************)
(* Bounds of the model.                                                    *)
(***************************************************************************)
\* number of "filler" keys the workload may insert besides the probe keys
MaxFill == 22
\* values are 1..MaxVal
MaxVal == 2
\* std::hash<K> yields a fixed-width integer: hashes are 0..HashSpace-1
HashSpace == 128
\* addresses the allocator hands out beyond one per key
SpareNodes == 1

(***************************************************************************)
(* Program constants.                                                      *)
(***************************************************************************)
\* size_t capacity = 16; init(const size_t cap = 16)
DefaultCapacity == 16
\* float load_factor = 0.75f, as the fraction LoadFactorNum / LoadFactorDen
LoadFactorNum == 3
LoadFactorDen == 4

NULL == 0

VARIABLES
    heap,       \* the live Node objects: address -> [key, value, hash, next]
    buckets,    \* Node **buckets: the array, index -> address or NULL
    sz,         \* size_t sz
    capacity,   \* size_t capacity
    threshold,  \* size_t threshold
    arrays,     \* number of bucket arrays allocated and not yet delete[]d
    thrown,     \* TRUE once std::bad_alloc has left a method
    destroyed,  \* TRUE once ~HashMap() has run
    filled,     \* workload: number of filler keys put and not taken out again
    contents,   \* reference: key -> the value the calls so far leave for it
    last        \* the last call, what it returned and what it started from

vars ==
    <<heap, buckets, sz, capacity, threshold, arrays, thrown, destroyed,
      filled, contents, last>>

(***************************************************************************)
(* Keys, values and the hash function.                                     *)
(***************************************************************************)
Values == 1..MaxVal

\* Three probe keys: ProbeA and ProbeB have different hashes that select the
\* same bucket at the default capacity (1 and 17 of TEST(HashMap, Collisions));
\* ProbeC is a different key with the same hash as ProbeA.
ProbeA == 1
ProbeB == 1 + DefaultCapacity
ProbeC == 1 + HashSpace
Probes == {ProbeA, ProbeB, ProbeC}

\* The filler keys, in the order the workload inserts them.
Filler(i) == 2 * i
Fillers == {Filler(i) : i \in 1..MaxFill}
FillValue(k) == ((k \div 2) % MaxVal) + 1

Keys == Probes \cup Fillers

\* std::hash<K> hasher, of a fixed width
Hasher(key) == key % HashSpace

\* std::optional<V>
nullopt == << >>
optional(v) == << v >>

\* a & b on non-negative integers
RECURSIVE BitAnd(_, _)
BitAnd(a, b) ==
    IF a = 0 \/ b = 0 THEN 0
    ELSE (a % 2) * (b % 2) + 2 * BitAnd(a \div 2, b \div 2)

\* index = h & (capacity - 1)
Index(h, cap) == BitAnd(h, cap - 1)

\* static_cast<size_t>(capacity * load_factor)
Threshold(cap) == (cap * LoadFactorNum) \div LoadFactorDen

(***************************************************************************)
(* The heap.                                                               *)
(***************************************************************************)
Addrs == 1..(Cardinality(Keys) + SpareNodes)

\* the number of allocations that succeed before operator new throws
\* std::bad_alloc; NoFail is more than any method makes
NoFail == 3

Free(hp) == Addrs \ DOMAIN hp

Min(S) == CHOOSE x \in S : \A y \in S : x <= y

\* new Node<K, V>(k, v, h, n): the address operator new returns. Any free
\* address would do; the allocator of the model gives the node of a key the
\* address Home(key) when that is free and the lowest free address otherwise,
\* so that heaps that differ only in the names of the addresses are one state.
Home(key) ==
    IF key = ProbeA THEN 1
    ELSE IF key = ProbeB THEN 2
    ELSE IF key = ProbeC THEN 3
    ELSE 3 + (key \div 2)

NewAddr(hp, key) ==
    IF Home(key) \in Free(hp) THEN Home(key) ELSE Min(Free(hp))

\* Node(const K &k, const V &v, const size_t h, Node *n)
Node(k, v, h, n) == [key |-> k, value |-> v, hash |-> h, next |-> n]

New(hp, a, node) == [x \in DOMAIN hp \cup {a} |-> IF x = a THEN node ELSE hp[x]]

\* delete e
Delete(hp, e) == [x \in DOMAIN hp \ {e} |-> hp[x]]

\* the object's fields as one record
Table ==
    [heap |-> heap, buckets |-> buckets, sz |-> sz, capacity |-> capacity,
     threshold |-> threshold, arrays |-> arrays, thrown |-> thrown]

\* new Node<K, V>*[cap] with every slot set to nullptr
EmptyBuckets(cap) == [i \in 0..(cap - 1) |-> NULL]

\* (!buckets)
NullBuckets == << >>

(***************************************************************************)
(* init(cap): m is the number of allocations that will still succeed.      *)
(***************************************************************************)
\* init() without its recomputation of threshold
init_keepsThreshold(t, cap, m) ==
    LET t1 == [t EXCEPT !.capacity = cap,
                        !.sz = 0]
    IN IF m = 0
       THEN [t1 EXCEPT !.thrown = TRUE]
       ELSE [t1 EXCEPT !.buckets = EmptyBuckets(cap),
                       !.arrays = @ + 1]

init(t, cap, m) ==
    LET t1 == [t EXCEPT !.capacity = cap,
                        !.sz = 0,
                        !.threshold = Threshold(cap)]
    IN IF m = 0
       THEN [t1 EXCEPT !.thrown = TRUE]
       ELSE [t1 EXCEPT !.buckets = EmptyBuckets(cap),
                       !.arrays = @ + 1]

(***************************************************************************)
(* resize()                                                                *)
(***************************************************************************)
\* the loop of resize with the index taken under the old mask, cap / 2
RECURSIVE RelinkChain_oldMask(_, _, _, _)
RelinkChain_oldMask(hp, bk, e, cap) ==
    IF e = NULL THEN [heap |-> hp, buckets |-> bk]
    ELSE LET index == Index(hp[e].hash, cap \div 2)
             next == hp[e].next
         IN RelinkChain_oldMask([hp EXCEPT ![e].next = bk[index]],
                                [bk EXCEPT ![index] = e],
                                next, cap)

\* the while (e) loop of resize: relinks the chain from e into bk
RECURSIVE RelinkChain(_, _, _, _)
RelinkChain(hp, bk, e, cap) ==
    IF e = NULL THEN [heap |-> hp, buckets |-> bk]
    ELSE LET index == Index(hp[e].hash, cap)
             next == hp[e].next
         IN RelinkChain([hp EXCEPT ![e].next = bk[index]],
                        [bk EXCEPT ![index] = e],
                        next, cap)

\* the for loop of resize begun at slot 1
RECURSIVE RelinkFrom_skipsFirst(_, _, _, _, _, _)
RelinkFrom_skipsFirst(hp, bk, old_buckets, i, old_cap, cap) ==
    IF i >= old_cap THEN [heap |-> hp, buckets |-> bk]
    ELSE IF i = 0
    THEN RelinkFrom_skipsFirst(hp, bk, old_buckets, 1, old_cap, cap)
    ELSE LET r == RelinkChain(hp, bk, old_buckets[i], cap)
         IN RelinkFrom_skipsFirst(r.heap, r.buckets, old_buckets, i + 1,
                                  old_cap, cap)

\* the for loop of resize over the old array, from slot i
RECURSIVE RelinkFrom(_, _, _, _, _, _)
RelinkFrom(hp, bk, old_buckets, i, old_cap, cap) ==
    IF i >= old_cap THEN [heap |-> hp, buckets |-> bk]
    ELSE LET r == RelinkChain(hp, bk, old_buckets[i], cap)
         IN RelinkFrom(r.heap, r.buckets, old_buckets, i + 1, old_cap, cap)

\* resize() without its `sz = temp_sz`
resize_losesSize(t, m) ==
    LET old_cap == t.capacity
        old_buckets == t.buckets
        t1 == init(t, old_cap * 2, m)
    IN IF t1.thrown THEN t1
       ELSE LET r == RelinkFrom(t1.heap, t1.buckets, old_buckets, 0, old_cap,
                                t1.capacity)
            IN [t1 EXCEPT !.heap = r.heap,
                          !.buckets = r.buckets,
                          !.arrays = @ - 1]

\* resize() with init(old_cap + old_cap / 2)
resize_growsByHalf(t, m) ==
    LET old_cap == t.capacity
        temp_sz == t.sz
        old_buckets == t.buckets
        t1 == init(t, old_cap + old_cap \div 2, m)
    IN IF t1.thrown THEN t1
       ELSE LET r == RelinkFrom(t1.heap, t1.buckets, old_buckets, 0, old_cap,
                                t1.capacity)
            IN [t1 EXCEPT !.sz = temp_sz,
                          !.heap = r.heap,
                          !.buckets = r.buckets,
                          !.arrays = @ - 1]

resize(t, m) ==
    LET old_cap == t.capacity
        temp_sz == t.sz
        old_buckets == t.buckets
        t1 == init(t, old_cap * 2, m)
    IN IF t1.thrown THEN t1
       ELSE LET r == RelinkFrom(t1.heap, t1.buckets, old_buckets, 0, old_cap,
                                t1.capacity)
            IN [t1 EXCEPT !.sz = temp_sz,
                          !.heap = r.heap,
                          !.buckets = r.buckets,
                          !.arrays = @ - 1]

(***************************************************************************)
(* get(key)                                                                *)
(***************************************************************************)
\* the chain scan shared by get, put and remove: the first node from e with
\* e->hash == h && e->key == key, and the node before it
\* the scan with `e->hash == h` alone, the key left uncompared
RECURSIVE ScanHashOnly(_, _, _, _, _)
ScanHashOnly(hp, prev, e, h, key) ==
    IF e = NULL THEN [prev |-> prev, e |-> NULL]
    ELSE IF hp[e].hash = h THEN [prev |-> prev, e |-> e]
    ELSE ScanHashOnly(hp, e, hp[e].next, h, key)

\* the scan that compares the head of the chain and goes no further
Scan_firstOnly(hp, prev, e, h, key) ==
    IF e = NULL THEN [prev |-> prev, e |-> NULL]
    ELSE IF hp[e].hash = h /\ hp[e].key = key THEN [prev |-> prev, e |-> e]
    ELSE [prev |-> e, e |-> NULL]

RECURSIVE Scan(_, _, _, _, _)
Scan(hp, prev, e, h, key) ==
    IF e = NULL THEN [prev |-> prev, e |-> NULL]
    ELSE IF hp[e].hash = h /\ hp[e].key = key THEN [prev |-> prev, e |-> e]
    ELSE Scan(hp, e, hp[e].next, h, key)

\* get() that returns the head of the chain without comparing it
get_headOnly(t, key) ==
    LET h == Hasher(key)
        index == Index(h, t.capacity)
        e == t.buckets[index]
    IN IF e # NULL THEN optional(t.heap[e].value) ELSE nullopt

get(t, key) ==
    LET h == Hasher(key)
        index == Index(h, t.capacity)
        e == Scan(t.heap, NULL, t.buckets[index], h, key).e
    IN IF e # NULL THEN optional(t.heap[e].value) ELSE nullopt

(***************************************************************************)
(* put(key, value)                                                         *)
(***************************************************************************)
\* put() that leaves the value of a key it finds as it was
put_keepsValue(t, key, value, m) ==
    LET h == Hasher(key)
        index == Index(h, t.capacity)
        e == Scan(t.heap, NULL, t.buckets[index], h, key).e
    IN IF e # NULL
       THEN t
       ELSE IF m = 0
       THEN [t EXCEPT !.thrown = TRUE]
       ELSE LET a == NewAddr(t.heap, key)
                t1 == [t EXCEPT
                         !.heap = New(t.heap, a,
                                      Node(key, value, h, t.buckets[index])),
                         !.buckets[index] = a,
                         !.sz = @ + 1]
            IN IF t1.sz > t1.threshold THEN resize(t1, m - 1) ELSE t1

\* put() with `++sz >= threshold`
put_resizesAtThreshold(t, key, value, m) ==
    LET h == Hasher(key)
        index == Index(h, t.capacity)
        e == Scan(t.heap, NULL, t.buckets[index], h, key).e
    IN IF e # NULL
       THEN [t EXCEPT !.heap[e].value = value]
       ELSE IF m = 0
       THEN [t EXCEPT !.thrown = TRUE]
       ELSE LET a == NewAddr(t.heap, key)
                t1 == [t EXCEPT
                         !.heap = New(t.heap, a,
                                      Node(key, value, h, t.buckets[index])),
                         !.buckets[index] = a,
                         !.sz = @ + 1]
            IN IF t1.sz >= t1.threshold THEN resize(t1, m - 1) ELSE t1

\* put() without the scan for the key: it always links a new node
put_alwaysInserts(t, key, value, m) ==
    LET h == Hasher(key)
        index == Index(h, t.capacity)
    IN IF m = 0
       THEN [t EXCEPT !.thrown = TRUE]
       ELSE LET a == NewAddr(t.heap, key)
                t1 == [t EXCEPT
                         !.heap = New(t.heap, a,
                                      Node(key, value, h, t.buckets[index])),
                         !.buckets[index] = a,
                         !.sz = @ + 1]
            IN IF t1.sz > t1.threshold THEN resize(t1, m - 1) ELSE t1

\* put() without the `if (++sz > threshold) resize()`
put_neverResizes(t, key, value, m) ==
    LET h == Hasher(key)
        index == Index(h, t.capacity)
        e == Scan(t.heap, NULL, t.buckets[index], h, key).e
    IN IF e # NULL
       THEN [t EXCEPT !.heap[e].value = value]
       ELSE IF m = 0
       THEN [t EXCEPT !.thrown = TRUE]
       ELSE LET a == NewAddr(t.heap, key)
            IN [t EXCEPT
                  !.heap = New(t.heap, a,
                               Node(key, value, h, t.buckets[index])),
                  !.buckets[index] = a,
                  !.sz = @ + 1]

put(t, key, value, m) ==
    LET h == Hasher(key)
        index == Index(h, t.capacity)
        e == Scan(t.heap, NULL, t.buckets[index], h, key).e
    IN IF e # NULL
       THEN [t EXCEPT !.heap[e].value = value]
       ELSE IF m = 0
       THEN [t EXCEPT !.thrown = TRUE]
       ELSE LET a == NewAddr(t.heap, key)
                t1 == [t EXCEPT
                         !.heap = New(t.heap, a,
                                      Node(key, value, h, t.buckets[index])),
                         !.buckets[index] = a,
                         !.sz = @ + 1]
            IN IF t1.sz > t1.threshold THEN resize(t1, m - 1) ELSE t1

(***************************************************************************)
(* remove(key): the table after the call and the value returned            *)
(***************************************************************************)
\* remove() without its `--sz`
remove_keepsSize(t, key) ==
    LET h == Hasher(key)
        index == Index(h, t.capacity)
        s == Scan(t.heap, NULL, t.buckets[index], h, key)
    IN IF s.e # NULL
       THEN LET next == t.heap[s.e].next
                t1 == IF s.prev # NULL
                      THEN [t EXCEPT !.heap[s.prev].next = next]
                      ELSE [t EXCEPT !.buckets[index] = next]
            IN [table |-> [t1 EXCEPT !.heap = Delete(t1.heap, s.e)],
                ret |-> TRUE]
       ELSE [table |-> t, ret |-> FALSE]

\* remove() that unlinks with `buckets[index] = e->next` whatever prev is
remove_unlinksAtHead(t, key) ==
    LET h == Hasher(key)
        index == Index(h, t.capacity)
        s == Scan(t.heap, NULL, t.buckets[index], h, key)
    IN IF s.e # NULL
       THEN LET next == t.heap[s.e].next
                t1 == [t EXCEPT !.buckets[index] = next]
            IN [table |-> [t1 EXCEPT !.heap = Delete(t1.heap, s.e),
                                     !.sz = @ - 1],
                ret |-> TRUE]
       ELSE [table |-> t, ret |-> FALSE]

\* remove() that goes back to the default capacity when it empties the map
remove_shrinksWhenEmpty(t, key) ==
    LET h == Hasher(key)
        index == Index(h, t.capacity)
        s == Scan(t.heap, NULL, t.buckets[index], h, key)
    IN IF s.e # NULL
       THEN LET next == t.heap[s.e].next
                t1 == IF s.prev # NULL
                      THEN [t EXCEPT !.heap[s.prev].next = next]
                      ELSE [t EXCEPT !.buckets[index] = next]
                t2 == [t1 EXCEPT !.heap = Delete(t1.heap, s.e),
                                 !.sz = @ - 1]
            IN [table |-> IF t2.sz = 0
                          THEN init([t2 EXCEPT !.arrays = @ - 1],
                                    DefaultCapacity, NoFail)
                          ELSE t2,
                ret |-> TRUE]
       ELSE [table |-> t, ret |-> FALSE]

remove(t, key) ==
    LET h == Hasher(key)
        index == Index(h, t.capacity)
        s == Scan(t.heap, NULL, t.buckets[index], h, key)
    IN IF s.e # NULL
       THEN LET next == t.heap[s.e].next
                t1 == IF s.prev # NULL
                      THEN [t EXCEPT !.heap[s.prev].next = next]
                      ELSE [t EXCEPT !.buckets[index] = next]
            IN [table |-> [t1 EXCEPT !.heap = Delete(t1.heap, s.e),
                                     !.sz = @ - 1],
                ret |-> TRUE]
       ELSE [table |-> t, ret |-> FALSE]

(***************************************************************************)
(* clear() and reset()                                                     *)
(***************************************************************************)
\* the while (curr) loop: deletes the chain from curr
RECURSIVE DeleteChain(_, _)
DeleteChain(hp, curr) ==
    IF curr = NULL THEN hp
    ELSE LET temp == hp[curr].next
         IN DeleteChain(Delete(hp, curr), temp)

\* the for loop over the slots from i, deleting every chain
RECURSIVE DeleteChainsFrom(_, _, _, _)
DeleteChainsFrom(hp, bk, i, cap) ==
    IF i >= cap THEN hp
    ELSE DeleteChainsFrom(DeleteChain(hp, bk[i]), bk, i + 1, cap)

\* clear() that ends with init(), as reset() does
clear_reinits(t) ==
    IF t.buckets = NullBuckets \/ t.sz = 0 THEN t
    ELSE init([t EXCEPT
                 !.heap = DeleteChainsFrom(t.heap, t.buckets, 0, t.capacity),
                 !.arrays = @ - 1],
              DefaultCapacity, NoFail)

clear(t) ==
    IF t.buckets = NullBuckets \/ t.sz = 0 THEN t
    ELSE [t EXCEPT !.heap = DeleteChainsFrom(t.heap, t.buckets, 0, t.capacity),
                   !.buckets = EmptyBuckets(t.capacity),
                   !.sz = 0]

\* reset() that calls init(capacity) for init()
reset_keepsCapacity(t, m) ==
    IF t.buckets = NullBuckets THEN init(t, t.capacity, m)
    ELSE LET hp == IF t.sz # 0
                   THEN DeleteChainsFrom(t.heap, t.buckets, 0, t.capacity)
                   ELSE t.heap
             t1 == [t EXCEPT !.heap = hp,
                             !.buckets = NullBuckets,
                             !.arrays = @ - 1]
         IN init(t1, t.capacity, m)

\* reset() that calls init(capacity / 2) for init()
reset_halves(t, m) ==
    IF t.buckets = NullBuckets THEN init(t, t.capacity \div 2, m)
    ELSE LET hp == IF t.sz # 0
                   THEN DeleteChainsFrom(t.heap, t.buckets, 0, t.capacity)
                   ELSE t.heap
             t1 == [t EXCEPT !.heap = hp,
                             !.buckets = NullBuckets,
                             !.arrays = @ - 1]
         IN init(t1, t.capacity \div 2, m)

reset(t, m) ==
    IF t.buckets = NullBuckets THEN init(t, DefaultCapacity, m)
    ELSE LET hp == IF t.sz # 0
                   THEN DeleteChainsFrom(t.heap, t.buckets, 0, t.capacity)
                   ELSE t.heap
             t1 == [t EXCEPT !.heap = hp,
                             !.buckets = NullBuckets,
                             !.arrays = @ - 1]
         IN init(t1, DefaultCapacity, m)

\* ~HashMap(): clear(), then delete[] buckets (nothing for a null pointer)
destroy(t) ==
    LET t1 == clear(t)
    IN IF t1.buckets = NullBuckets THEN t1
       ELSE [t1 EXCEPT !.buckets = NullBuckets,
                       !.arrays = @ - 1]

\* size() and empty()
size(t) == t.sz
empty(t) == t.sz = 0

(***************************************************************************)
(* The state machine.                                                      *)
(***************************************************************************)
\* HashMap(): the fields' default member initializers, then init()
Constructed ==
    init([heap |-> << >>, buckets |-> NullBuckets, sz |-> 0,
          capacity |-> DefaultCapacity,
          threshold |-> Threshold(DefaultCapacity),
          arrays |-> 0, thrown |-> FALSE],
         DefaultCapacity, NoFail)

Becomes(t) ==
    /\ heap' = t.heap
    /\ buckets' = t.buckets
    /\ sz' = t.sz
    /\ capacity' = t.capacity
    /\ threshold' = t.threshold
    /\ arrays' = t.arrays
    /\ thrown' = t.thrown

\* The workload. The filler keys go in as a stack: the next one is put, the
\* last one is taken out. With as many filler keys in the map that the probe
\* keys take the size up to a threshold and past it (and with none), the
\* workload stops filling and calls the methods with the probe keys and the
\* filler keys on top, in any order and with any value; between these stops
\* it calls them with the next filler key alone.
Stops ==
    {0} \cup {Threshold(c) + 1 - Cardinality(Probes) :
                 c \in {DefaultCapacity, 2 * DefaultCapacity}}
TopFiller == IF filled > 0 THEN {Filler(filled)} ELSE {}
NextFiller == IF filled < MaxFill THEN {Filler(filled + 1)} ELSE {}
InputKeys ==
    IF filled \in Stops THEN Probes \cup TopFiller \cup NextFiller
    ELSE NextFiller
InputValues(key) == IF key \in Probes THEN Values ELSE {FillValue(key)}

\* The chain of bucket i, head first, as the sequence of its addresses.
RECURSIVE ChainFrom(_, _)
ChainFrom(hp, e) ==
    IF e = NULL THEN << >> ELSE << e >> \o ChainFrom(hp, hp[e].next)

Chain(i) == ChainFrom(heap, buckets[i])

\* Where the node of key is in the chain of its bucket (0: nowhere).
Position(key) ==
    LET c == Chain(Index(Hasher(key), capacity))
        at == {i \in 1..Len(c) : heap[c[i]].key = key}
    IN IF at = {} THEN 0 ELSE Min(at)

\* What a call starts from, kept for the statements about its effect; it
\* is an observation of the caller and no part of the map.
Before(key) ==
    [sz |-> sz, capacity |-> capacity, threshold |-> threshold,
     had |-> contents[key], pos |-> Position(key),
     len |-> Len(Chain(Index(Hasher(key), capacity)))]

\* The same for a call without a key, with the call it comes after.
Snapshot(after) ==
    [sz |-> sz, capacity |-> capacity, threshold |-> threshold,
     had |-> nullopt, pos |-> 0, len |-> 0, after |-> after]

BeforeAll == Snapshot(last.op)

Call(op, key, value, ret, out, was) ==
    [op |-> op, key |-> key, value |-> value, ret |-> ret, out |-> out,
     was |-> was]

Nothing == [k \in Keys |-> nullopt]

Init ==
    /\ heap = Constructed.heap
    /\ buckets = Constructed.buckets
    /\ sz = Constructed.sz
    /\ capacity = Constructed.capacity
    /\ threshold = Constructed.threshold
    /\ arrays = Constructed.arrays
    /\ thrown = Constructed.thrown
    /\ destroyed = FALSE
    /\ filled = 0
    /\ contents = Nothing
    /\ last = Call("none", 0, 0, FALSE, nullopt, Snapshot("none"))

\* A call is made only while no std::bad_alloc has left a method: the
\* exception is fatal to the caller, which makes no further call on the map.
Get(key) ==
    /\ ~thrown /\ ~destroyed
    /\ last' = Call("get", key, 0, FALSE, get(Table, key), Before(key))
    /\ UNCHANGED <<heap, buckets, sz, capacity, threshold, arrays, thrown,
                   destroyed, filled, contents>>

Put(key, value) ==
    /\ ~thrown /\ ~destroyed
    /\ Becomes(put(Table, key, value, NoFail))
    /\ filled' = IF key \in NextFiller THEN filled + 1 ELSE filled
    /\ contents' = [contents EXCEPT ![key] = optional(value)]
    /\ last' = Call("put", key, value, FALSE, nullopt, Before(key))
    /\ UNCHANGED destroyed

Remove(key) ==
    /\ ~thrown /\ ~destroyed
    /\ LET r == remove(Table, key)
       IN /\ Becomes(r.table)
          /\ last' = Call("remove", key, 0, r.ret, nullopt, Before(key))
    /\ filled' = IF key \in TopFiller THEN filled - 1 ELSE filled
    /\ contents' = [contents EXCEPT ![key] = nullopt]
    /\ UNCHANGED destroyed

Clear ==
    /\ ~thrown /\ ~destroyed
    /\ Becomes(clear(Table))
    /\ filled' = 0
    /\ contents' = Nothing
    /\ last' = Call("clear", 0, 0, FALSE, nullopt, BeforeAll)
    /\ UNCHANGED destroyed

Reset ==
    /\ ~thrown /\ ~destroyed
    /\ Becomes(reset(Table, NoFail))
    /\ filled' = 0
    /\ contents' = Nothing
    /\ last' = Call("reset", 0, 0, FALSE, nullopt, BeforeAll)
    /\ UNCHANGED destroyed

\* put(key, value) in which the (m+1)-th allocation throws std::bad_alloc:
\* the new Node (m = 0) or the array of the resize (m = 1)
PutBadAlloc(key, value, m) ==
    /\ ~thrown /\ ~destroyed
    /\ LET t == put(Table, key, value, m)
       IN t.thrown /\ Becomes(t)
    /\ last' = Call("put", key, value, FALSE, nullopt, Before(key))
    /\ UNCHANGED <<destroyed, filled, contents>>

\* reset() in which the allocation of init() throws std::bad_alloc
ResetBadAlloc ==
    /\ ~thrown /\ ~destroyed
    /\ Becomes(reset(Table, 0))
    /\ last' = Call("reset", 0, 0, FALSE, nullopt, BeforeAll)
    /\ UNCHANGED <<destroyed, filled, contents>>

\* ~HashMap(): it runs when the owner of the map ends, also after a
\* std::bad_alloc has left a method; no call follows it.
Destroy ==
    /\ ~destroyed
    /\ Becomes(destroy(Table))
    /\ destroyed' = TRUE
    /\ filled' = 0
    /\ contents' = Nothing
    /\ last' = Call("destroy", 0, 0, FALSE, nullopt, BeforeAll)

Next ==
    \/ \E key \in InputKeys : Get(key)
    \/ \E key \in InputKeys : \E value \in InputValues(key) : Put(key, value)
    \/ \E key \in InputKeys : Remove(key)
    \/ Clear
    \/ Reset

\* no allocation fails
Spec == Init /\ [][Next]_vars

NextAlloc ==
    \/ Next
    \/ \E key \in InputKeys : \E value \in InputValues(key) :
            \E m \in 0..1 : PutBadAlloc(key, value, m)
    \/ ResetBadAlloc

\* an allocation may fail
SpecAlloc == Init /\ [][NextAlloc]_vars

NextLife ==
    \/ NextAlloc
    \/ Destroy

\* an allocation may fail, and the map is destroyed in the end
SpecLife == Init /\ [][NextLife]_vars

(***************************************************************************)
(* The claims.                                                             *)
(***************************************************************************)
\* the number of entries stored in the chains of slots i, i+1, ...
RECURSIVE EntriesFrom(_)
EntriesFrom(i) ==
    IF i >= capacity THEN 0 ELSE Len(Chain(i)) + EntriesFrom(i + 1)

ChainEntries == EntriesFrom(0)

PresentKeys == {k \in Keys : contents[k] # nullopt}

\* every node of every chain is in the chain its cached hash selects
ChainsIndexed ==
    \A i \in DOMAIN buckets :
        \A j \in 1..Len(Chain(i)) :
            Index(heap[Chain(i)[j]].hash, capacity) = i

\* the fields agree with each other and with the stored entries
TableValid ==
    /\ DOMAIN buckets = 0..(capacity - 1)
    /\ threshold * LoadFactorDen <= capacity * LoadFactorNum
    /\ capacity * LoadFactorNum < (threshold + 1) * LoadFactorDen
    /\ sz = ChainEntries
    /\ ChainsIndexed

SameBucket(k1, k2, cap) == Index(Hasher(k1), cap) = Index(Hasher(k2), cap)

\* C1: after put(k, v), get(k) returns v, whether k was new or present and
\* whether or not the put resized the table.
PutThenGet ==
    last.op = "put" => get(Table, last.key) = optional(last.value)

\* a put of a new key that resized the table, after which get finds the key
PutThenGet_Witness ==
    /\ last.op = "put"
    /\ last.was.had = nullopt
    /\ capacity = 2 * last.was.capacity
    /\ last.was.len >= 1
    /\ get(Table, last.key) = optional(last.value)

\* C2: when std::bad_alloc leaves put() (the new node, or the doubled array of
\* the resize), the table is valid: the length of the array, capacity,
\* threshold and size agree with each other and with the stored entries.
FailedPutKeepsTableValid ==
    (thrown /\ last.op = "put") => TableValid

\* C3: a put of a new key resizes exactly when the incremented size is
\* greater than the threshold; the resize doubles the capacity once and makes
\* the threshold floor(capacity * 0.75), so the 13th key from capacity 16
\* gives 32 and 24 and the 25th gives 64 and 48; after the resize every key
\* has the value last put for it.
GrowthOnPut ==
    (last.op = "put" /\ last.was.had = nullopt) =>
        /\ sz = last.was.sz + 1
        /\ IF sz > last.was.threshold
           THEN /\ capacity = 2 * last.was.capacity
                /\ threshold * 4 <= capacity * 3
                /\ capacity * 3 < (threshold + 1) * 4
                /\ \A k \in Keys : get(Table, k) = contents[k]
           ELSE /\ capacity = last.was.capacity
                /\ threshold = last.was.threshold
        /\ (last.was.capacity = 16 /\ sz <= 12) => capacity = 16
        /\ (last.was.capacity = 16 /\ sz = 13) =>
               (capacity = 32 /\ threshold = 24)
        /\ (last.was.capacity = 32 /\ sz = 25) =>
               (capacity = 64 /\ threshold = 48)

\* the 25th key has just taken the table from 32 to 64
GrowthOnPut_Witness ==
    /\ last.op = "put"
    /\ last.was.had = nullopt
    /\ last.was.capacity = 32
    /\ last.was.sz = 24
    /\ capacity = 64
    /\ threshold = 48
    /\ \A k \in PresentKeys : get(Table, k) = contents[k]
    /\ Cardinality(PresentKeys) = 25

\* C4: remove(k) of a present key returns true, get(k) is then absent and
\* the size is one less, wherever the entry was in its chain.
RemovePresent ==
    (last.op = "remove" /\ last.was.had # nullopt) =>
        /\ last.ret = TRUE
        /\ get(Table, last.key) = nullopt
        /\ sz = last.was.sz - 1

\* an entry has been removed from the middle of its chain
RemovePresent_Witness ==
    /\ last.op = "remove"
    /\ last.was.had # nullopt
    /\ last.ret
    /\ 1 < last.was.pos
    /\ last.was.pos < last.was.len

\* C5: remove(k) of an absent key returns false and changes neither the size,
\* nor the capacity, nor the threshold, nor what get returns for any key.
RemoveAbsent ==
    [][(last'.op = "remove" /\ contents[last'.key] = nullopt) =>
          /\ last'.ret = FALSE
          /\ sz' = sz
          /\ capacity' = capacity
          /\ threshold' = threshold
          /\ \A k \in Keys : get(Table', k) = get(Table, k)]_vars

\* an absent key was removed from a table whose chain for it holds two others
RemoveAbsent_Witness ==
    /\ last.op = "remove"
    /\ last.was.had = nullopt
    /\ ~last.ret
    /\ last.was.len >= 2
    /\ sz = last.was.sz

\* C6: put(k, v2) of a present key makes get(k) return v2 and changes neither
\* the size, nor the capacity, nor the threshold, and leaves one entry for k.
OverwriteInPlace ==
    (last.op = "put" /\ last.was.had # nullopt) =>
        /\ get(Table, last.key) = optional(last.value)
        /\ sz = last.was.sz
        /\ capacity = last.was.capacity
        /\ threshold = last.was.threshold
        /\ Cardinality({a \in DOMAIN heap : heap[a].key = last.key}) = 1
        /\ Cardinality(DOMAIN heap) = last.was.sz

\* a key not at the head of its chain was given another value
OverwriteInPlace_Witness ==
    /\ last.op = "put"
    /\ last.was.had # nullopt
    /\ last.was.had # optional(last.value)
    /\ last.was.pos > 1
    /\ get(Table, last.key) = optional(last.value)

\* C7: get(k) returns absent for every key that is not in the map: never put,
\* or removed, cleared or reset since.
AbsentKeyGet ==
    /\ \A k \in Keys : contents[k] = nullopt => get(Table, k) = nullopt
    /\ (last.op = "get" /\ last.was.had = nullopt) => last.out = nullopt

\* get of an absent key scanned a chain that holds a key with the same hash
AbsentKeyGet_Witness ==
    /\ last.op = "get"
    /\ last.key = ProbeC
    /\ last.was.had = nullopt
    /\ contents[ProbeA] # nullopt
    /\ last.out = nullopt

\* C8: a put or remove of one key leaves what get returns for every other key
\* of the same bucket as it was, and has its own effect there.
CollidingKeysIndependent ==
    [][last'.op \in {"put", "remove"} =>
          \A k \in Keys \ {last'.key} :
              SameBucket(k, last'.key, capacity) =>
                  /\ get(Table', k) = get(Table, k)
                  /\ last'.op = "put" =>
                         get(Table', last'.key) = optional(last'.value)
                  /\ last'.op = "remove" =>
                         /\ get(Table', last'.key) = nullopt
                         /\ last'.ret = (contents[last'.key] # nullopt)]_vars

\* a key was removed from a chain in which another key stays
CollidingKeysIndependent_Witness ==
    /\ last.op = "remove"
    /\ last.ret
    /\ last.was.len >= 2
    /\ \E k \in PresentKeys :
           /\ k # last.key
           /\ SameBucket(k, last.key, last.was.capacity)
           /\ get(Table, k) = contents[k]

\* C9: size is the number of entries stored in the chains, which is the
\* number of distinct keys in the map.
SizeIsEntryCount ==
    /\ sz = ChainEntries
    /\ sz = Cardinality(PresentKeys)

\* every key is in the map, after two resizes
SizeIsEntryCount_Witness ==
    /\ PresentKeys = Keys
    /\ sz = Cardinality(Keys)
    /\ capacity > 2 * DefaultCapacity

\* C10: clear() leaves size 0, every slot empty and every key absent, with
\* the capacity and the threshold it started from.
ClearKeepsCapacity ==
    last.op = "clear" =>
        /\ sz = 0
        /\ DOMAIN buckets = 0..(capacity - 1)
        /\ \A i \in DOMAIN buckets : buckets[i] = NULL
        /\ \A k \in Keys : get(Table, k) = nullopt
        /\ capacity = last.was.capacity
        /\ threshold = last.was.threshold

\* a table grown twice was cleared of its entries
ClearKeepsCapacity_Witness ==
    /\ last.op = "clear"
    /\ last.was.sz > 0
    /\ last.was.capacity > 2 * DefaultCapacity
    /\ capacity = last.was.capacity
    /\ sz = 0

\* C11: reset() leaves the table as the constructor does: capacity 16,
\* threshold 12, size 0, an array of 16 empty slots, no entry and every key
\* absent; the calls after it then act as on a new table.
ResetIsConstructed ==
    last.op = "reset" =>
        /\ capacity = 16
        /\ threshold = 12
        /\ sz = 0
        /\ \A k \in Keys : get(Table, k) = nullopt
        /\ Table = Constructed

\* a table grown to 64 slots and holding entries was reset
ResetIsConstructed_Witness ==
    /\ last.op = "reset"
    /\ last.was.capacity > 2 * DefaultCapacity
    /\ last.was.sz > 0
    /\ capacity = DefaultCapacity
    /\ heap = << >>

\* C12: a clear() right after a clear(), and a reset() right after a reset(),
\* leaves every field of the table as the first call left it.
TwiceIsOnce ==
    [][/\ (last.op = "clear" /\ last'.op = "clear") => Table' = Table
       /\ (last.op = "reset" /\ last'.op = "reset") => Table' = Table]_vars

\* clear() was called right after a clear() that emptied a grown table
TwiceIsOnce_Witness ==
    /\ last.op = "clear"
    /\ last.was.after = "clear"
    /\ last.was.sz = 0
    /\ capacity > DefaultCapacity
    /\ heap = << >>

\* the entries of the chains of slots i .. n-1 of the array, in order
RECURSIVE EntriesOf(_, _)
EntriesOf(i, n) ==
    IF i >= n THEN << >> ELSE Chain(i) \o EntriesOf(i + 1, n)

AllEntries == EntriesOf(0, Cardinality(DOMAIN buckets))

ReachableEntries ==
    LET all == AllEntries IN {all[j] : j \in 1..Len(all)}

\* C13: after every completed call the live entries are those reachable from
\* the array, each reachable once, and one array is live; after the
\* destructor, from whatever state it starts, no entry and no array is live;
\* nothing is released twice.
EntriesAndArrayReleased ==
    /\ arrays >= 0
    /\ (~destroyed /\ ~thrown) =>
           /\ arrays = 1
           /\ DOMAIN heap = ReachableEntries
           /\ Len(AllEntries) = Cardinality(DOMAIN heap)
    /\ destroyed => (heap = << >> /\ arrays = 0)

\* C14: every entry is in one chain, once, and that chain is the one at
\* cached hash & (capacity - 1); so the chains are acyclic and disjoint, and
\* a resize has every entry in the chain of its hash under the new mask.
OneChainPerEntry ==
    /\ DOMAIN buckets = 0..(capacity - 1)
    /\ LET all == AllEntries
       IN \A a \in DOMAIN heap :
              Cardinality({j \in 1..Len(all) : all[j] = a}) = 1
    /\ \A i \in DOMAIN buckets :
           LET c == Chain(i)
           IN \A j \in 1..Len(c) :
                  /\ c[j] \in DOMAIN heap
                  /\ Index(heap[c[j]].hash, capacity) = i

\* a resize has split a chain: ProbeA and ProbeB, in one chain at capacity
\* 16, are in different chains at capacity 32
OneChainPerEntry_Witness ==
    /\ last.op = "put"
    /\ last.was.capacity = DefaultCapacity
    /\ capacity = 2 * DefaultCapacity
    /\ contents[ProbeA] # nullopt
    /\ contents[ProbeB] # nullopt
    /\ Position(ProbeA) > 0
    /\ Position(ProbeB) > 0
    /\ ~SameBucket(ProbeA, ProbeB, capacity)
    /\ SameBucket(ProbeA, ProbeB, last.was.capacity)

\* C15: no two entries of the table have the same cached hash and the same
\* key.
KeysUnique ==
    LET all == AllEntries
    IN \A i, j \in 1..Len(all) :
           i # j => ~(/\ heap[all[i]].hash = heap[all[j]].hash
                      /\ heap[all[i]].key = heap[all[j]].key)

\* ProbeC, behind other entries in the chain it shares with ProbeA, which has
\* the same hash, was put again in a table that has been resized
KeysUnique_Witness ==
    /\ last.op = "put"
    /\ last.key = ProbeC
    /\ last.was.had # nullopt
    /\ last.was.pos > 1
    /\ contents[ProbeA] # nullopt
    /\ capacity > DefaultCapacity
    /\ Cardinality({a \in DOMAIN heap : heap[a].hash = Hasher(ProbeA)}) = 2

RECURSIVE PowerOfTwo(_)
PowerOfTwo(n) == n = 1 \/ (n > 1 /\ n % 2 = 0 /\ PowerOfTwo(n \div 2))

\* C16: capacity is a power of two and at least 16; it is 16 after the
\* constructor and after reset, a put leaves it or doubles it and no other
\* call changes it; so hash & (capacity - 1) is hash mod capacity.
CapacityPowerOfTwo ==
    /\ PowerOfTwo(capacity)
    /\ capacity >= 16
    /\ last.op \in {"none", "reset"} => capacity = 16
    /\ \/ capacity = last.was.capacity
       \/ last.op = "put" /\ capacity = 2 * last.was.capacity
       \/ last.op = "reset"
    /\ \A k \in Keys :
           /\ Index(Hasher(k), capacity) \in 0..(capacity - 1)
           /\ Index(Hasher(k), capacity) = Hasher(k) % capacity

\* a put has doubled the capacity a second time
CapacityPowerOfTwo_Witness ==
    /\ last.op = "put"
    /\ last.was.capacity = 2 * DefaultCapacity
    /\ capacity = 4 * DefaultCapacity
    /\ Index(Hasher(ProbeB), capacity) = ProbeB

\* C17: threshold is floor(capacity * 0.75) in every state, and a call that
\* leaves the capacity as it was leaves the threshold as it was.
ThresholdFollowsCapacity ==
    /\ threshold * 4 <= capacity * 3
    /\ capacity * 3 < (threshold + 1) * 4
    /\ capacity = last.was.capacity => threshold = last.was.threshold

\* reset has taken the threshold of a table of 64 slots back to 12
ThresholdFollowsCapacity_Witness ==
    /\ last.op = "reset"
    /\ last.was.threshold = 48
    /\ threshold = 12

\* C18, as claimed: remove changes neither capacity nor threshold, and no
\* call ever makes the capacity smaller.
CapacityNeverShrinks ==
    [][/\ last'.op = "remove" =>
              (capacity' = capacity /\ threshold' = threshold)
       /\ capacity' >= capacity]_vars

\* C18, amended: remove changes neither capacity nor threshold, and no call
\* but reset ever makes the capacity smaller.
CapacityShrinksOnlyOnReset ==
    [][/\ last'.op = "remove" =>
              (capacity' = capacity /\ threshold' = threshold)
       /\ last'.op # "reset" => capacity' >= capacity]_vars

\* a remove has emptied a table of more than 16 slots
CapacityShrinksOnlyOnReset_Witness ==
    /\ last.op = "remove"
    /\ last.ret
    /\ sz = 0
    /\ last.was.capacity > DefaultCapacity
    /\ capacity = last.was.capacity
    /\ threshold = last.was.threshold

\* C19: the table is the map `contents` of the calls made: get(k) is
\* contents[k] for every key, size() is the number of its keys, empty()
\* says whether it has none; and a call on one key leaves what get returns
\* for every other key as it was.
RefinesMap ==
    /\ [](/\ \A k \in Keys : get(Table, k) = contents[k]
          /\ size(Table) = Cardinality(PresentKeys)
          /\ empty(Table) = (PresentKeys = {})
          /\ last.op = "get" => last.out = contents[last.key])
    /\ [][last'.op \in {"get", "put", "remove"} =>
              \A k \in Keys \ {last'.key} : get(Table', k) = get(Table, k)]_vars

\* get has found a key in a table that has been resized twice
RefinesMap_Witness ==
    /\ last.op = "get"
    /\ last.out # nullopt
    /\ last.out = contents[last.key]
    /\ capacity = 4 * DefaultCapacity
    /\ size(Table) = Cardinality(Keys)
    /\ ~empty(Table)

\* C20: size <= threshold after every call, and so before every call; a put
\* resizes at most once.
SizeWithinThreshold ==
    /\ sz <= threshold
    /\ last.was.sz <= last.was.threshold
    /\ last.op = "put" =>
           capacity \in {last.was.capacity, 2 * last.was.capacity}

\* a put took the size past the threshold and one doubling brought it back
SizeWithinThreshold_Witness ==
    /\ last.op = "put"
    /\ last.was.sz = last.was.threshold
    /\ sz = last.was.threshold + 1
    /\ capacity = 2 * last.was.capacity
    /\ sz <= threshold

====
